---- MODULE Spec2Model ----
(***************************************************************************)
(* A model of the stockbroker application (src/src/stockbroker.py).        *)
(*                                                                         *)
(* Text is modelled character by character: a Python str is a sequence of  *)
(* characters, each character a TLA+ string naming it ("A", " ", ",", and  *)
(* "U+4E2D" for the CJK letter of that code point).  A float is modelled   *)
(* as the decimal number its literal denotes, [m |-> mantissa, e |->       *)
(* number of fractional digits], kept normalised (no trailing zero digit)  *)
(* so that record equality is numeric equality.  The numeric texts the     *)
(* model draws use only the characters 0-9, ".", "-" and letters that      *)
(* form no float or int literal; on those texts float and int below agree  *)
(* with Python's.                                                          *)
(***************************************************************************)
EXTENDS Integers, Sequences, FiniteSets, TLC

VARIABLES
    stockcode_file, \* the file StockCodeService.filename names
    stock_codes,    \* StockCodeService.stock_codes: the registry, a set of str
    trade_books,    \* TradeBookService.trade_books: a list of TradeBook
    orders_file,    \* the file TradeBookService.filename names
    status,         \* "running", "exited", or the exception that ended the process
    input,          \* the command file or the standard input, and the lines read of it
    output,         \* the lines the last step printed
    call,           \* the last operation invoked, its argument(s) and its return value
    before,         \* trade_books as it was when the last operation was invoked
    loaded,         \* trade_books as load_trade_books left it
    ntrades         \* the number of trades processed so far

vars == <<stockcode_file, stock_codes, trade_books, orders_file, status, input, output,
          call, before, loaded, ntrades>>

-----------------------------------------------------------------------------
(* Bounds of the model *)

\* process_trade is invoked at most this many times in a behaviour
MaxTrades == 2

-----------------------------------------------------------------------------
(* Characters and the str methods the program uses *)

UpperChars == {"A", "B", "C", "E", "F", "G", "I", "L", "M", "O", "P", "S", "T", "X", "Z"}

LowerChars ==
    {"a", "b", "c", "d", "e", "f", "g", "h", "i", "l", "m", "o", "p", "s", "t", "u",
     "x", "y", "z"}

\* the lowercase letter of each uppercase letter
LowerOf ==
    ("A" :> "a") @@ ("B" :> "b") @@ ("C" :> "c") @@ ("E" :> "e") @@ ("F" :> "f")
    @@ ("G" :> "g") @@ ("I" :> "i") @@ ("L" :> "l") @@ ("M" :> "m") @@ ("O" :> "o")
    @@ ("P" :> "p") @@ ("S" :> "s") @@ ("T" :> "t") @@ ("X" :> "x") @@ ("Z" :> "z")

\* str.lower
lower(s) == [i \in 1..Len(s) |-> IF s[i] \in UpperChars THEN LowerOf[s[i]] ELSE s[i]]

\* letters that have no case: str.isalpha holds of them, and they are not cased
UncasedLetters == {"U+4E2D"}

DigitSeq == <<"0", "1", "2", "3", "4", "5", "6", "7", "8", "9">>

DigitChars == {DigitSeq[i] : i \in 1..10}

Whitespace == {" "}

\* str.isalpha: the string is not empty and all its characters are letters
isalpha(s) ==
    /\ s # <<>>
    /\ \A i \in 1..Len(s) : s[i] \in UpperChars \cup LowerChars \cup UncasedLetters

\* str.isupper: the string has a cased character and no cased character is lowercase
isupper(s) ==
    /\ \E i \in 1..Len(s) : s[i] \in UpperChars \cup LowerChars
    /\ \A i \in 1..Len(s) : s[i] \notin LowerChars

RECURSIVE lstrip(_)
lstrip(s) ==
    IF s # <<>> /\ Head(s) \in Whitespace THEN lstrip(Tail(s)) ELSE s

RECURSIVE rstrip(_)
rstrip(s) ==
    IF s # <<>> /\ s[Len(s)] \in Whitespace
    THEN rstrip(SubSeq(s, 1, Len(s) - 1))
    ELSE s

\* str.strip()
strip(s) == rstrip(lstrip(s))

\* str.split(): the maximal runs of non-whitespace characters, in order
RECURSIVE split_ws(_, _, _)
split_ws(s, word, acc) ==
    IF s = <<>>
    THEN IF word = <<>> THEN acc ELSE Append(acc, word)
    ELSE IF Head(s) \in Whitespace
         THEN split_ws(Tail(s), <<>>, IF word = <<>> THEN acc ELSE Append(acc, word))
         ELSE split_ws(Tail(s), Append(word, Head(s)), acc)

split(s) == split_ws(s, <<>>, <<>>)

\* str.split(sep): the fields between the separators, empty fields kept
RECURSIVE split_sep(_, _, _, _)
split_sep(s, sep, field, acc) ==
    IF s = <<>>
    THEN Append(acc, field)
    ELSE IF Head(s) = sep
         THEN split_sep(Tail(s), sep, <<>>, Append(acc, field))
         ELSE split_sep(Tail(s), sep, Append(field, Head(s)), acc)

split_on(s, sep) == split_sep(s, sep, <<>>, <<>>)

-----------------------------------------------------------------------------
(* Numbers: float as a decimal, int as an integer *)

RECURSIVE Pow10(_)
Pow10(n) == IF n = 0 THEN 1 ELSE 10 * Pow10(n - 1)

RECURSIVE Dec(_, _)
\* the decimal m / 10^e, normalised
Dec(m, e) ==
    IF m = 0 THEN [m |-> 0, e |-> 0]
    ELSE IF e > 0 /\ m % 10 = 0 THEN Dec(m \div 10, e - 1)
    ELSE [m |-> m, e |-> e]

\* p >= q on floats
float_ge(p, q) == p.m * Pow10(q.e) >= q.m * Pow10(p.e)

\* The integer nearest to m / 10^(e-2), the tie going to the even one: the number
\* of hundredths that round(p, 2) and the format ".2f" both keep.  (Python rounds
\* the exact binary value; a decimal tie is a tie of the binary value only when the
\* float is exact, such as 0.125, and the model draws no other tie.)
Hundredths(p) ==
    IF p.e <= 2
    THEN p.m * Pow10(2 - p.e)
    ELSE LET d == Pow10(p.e - 2)
             q == p.m \div d
             r == p.m % d
         IN  IF 2 * r < d THEN q
             ELSE IF 2 * r > d THEN q + 1
             ELSE IF q % 2 = 0 THEN q ELSE q + 1

\* round(price, 2)
round2(p) == Dec(Hundredths(p), 2)

DigitValue(c) == CHOOSE d \in 0..9 : DigitSeq[d + 1] = c

RECURSIVE DigitsValue(_)
DigitsValue(s) ==
    IF s = <<>> THEN 0
    ELSE 10 * DigitsValue(SubSeq(s, 1, Len(s) - 1)) + DigitValue(s[Len(s)])

RECURSIVE DigitsOf(_)
\* the decimal digits of a natural number
DigitsOf(n) ==
    IF n < 10 THEN <<DigitSeq[n + 1]>>
    ELSE Append(DigitsOf(n \div 10), DigitSeq[(n % 10) + 1])

Unsigned(s) == IF s # <<>> /\ s[1] \in {"-", "+"} THEN Tail(s) ELSE s

Negative(s) == s # <<>> /\ s[1] = "-"

\* float(text): [ok |-> FALSE] stands for the ValueError
float(text) ==
    LET s    == strip(text)
        body == Unsigned(s)
        dots == {i \in 1..Len(body) : body[i] = "."}
        good == /\ \A i \in 1..Len(body) : body[i] \in DigitChars \cup {"."}
                /\ Cardinality(dots) <= 1
                /\ \E i \in 1..Len(body) : body[i] \in DigitChars
    IN  IF ~good THEN [ok |-> FALSE, val |-> Dec(0, 0)]
        ELSE LET dot  == IF dots = {} THEN Len(body) + 1 ELSE CHOOSE i \in dots : TRUE
                 ip   == SubSeq(body, 1, dot - 1)
                 fp   == SubSeq(body, dot + 1, Len(body))
                 mag  == DigitsValue(ip \o fp)
             IN  [ok |-> TRUE,
                  val |-> Dec(IF Negative(s) THEN -mag ELSE mag, Len(fp))]

\* int(text): [ok |-> FALSE] stands for the ValueError
int(text) ==
    LET s    == strip(text)
        body == Unsigned(s)
        good == /\ body # <<>>
                /\ \A i \in 1..Len(body) : body[i] \in DigitChars
    IN  IF ~good THEN [ok |-> FALSE, val |-> 0]
        ELSE [ok |-> TRUE,
              val |-> IF Negative(s) THEN -DigitsValue(body) ELSE DigitsValue(body)]

\* f"{price:.2f}"
format_2f(p) ==
    LET h   == Hundredths(p)
        a   == IF h < 0 THEN -h ELSE h
        f   == a % 100
    IN  (IF p.m < 0 THEN <<"-">> ELSE <<>>)
        \o DigitsOf(a \div 100) \o <<".">>
        \o <<DigitSeq[(f \div 10) + 1], DigitSeq[(f % 10) + 1]>>

\* f"{volume}"
format_int(n) == IF n < 0 THEN <<"-">> \o DigitsOf(-n) ELSE DigitsOf(n)

-----------------------------------------------------------------------------
(* class TradeBook *)

TradeBook(action, stock_code, price, volume) ==
    [action |-> action, stock_code |-> stock_code, price |-> price, volume |-> volume]

\* __eq__ with the volume compared as well
TradeBook_eq_WithVolume(self, other) ==
    /\ self.action = other.action
    /\ self.stock_code = other.stock_code
    /\ self.price = other.price
    /\ self.volume = other.volume

\* TradeBook.__eq__: the volume is not compared
TradeBook_eq(self, other) ==
    /\ self.action = other.action
    /\ self.stock_code = other.stock_code
    /\ self.price = other.price

\* to_csv_line with the price written without its fraction
to_csv_line_WholePrice(self) ==
    self.action \o <<",">> \o self.stock_code \o <<",">>
    \o format_int(Hundredths(self.price) \div 100) \o <<",">> \o format_int(self.volume)

to_csv_line(self) ==
    self.action \o <<",">> \o self.stock_code \o <<",">>
    \o format_2f(self.price) \o <<",">> \o format_int(self.volume)

\* from_csv_line with the fields after the fourth ignored
from_csv_line_FirstFour(line) ==
    LET fields == split_on(strip(line), ",")
        none   == [ok |-> FALSE, book |-> TradeBook(<<>>, <<>>, Dec(0, 0), 0)]
    IN  IF Len(fields) < 4 THEN none
        ELSE LET price  == float(fields[3])
                 volume == int(fields[4])
             IN  IF ~price.ok \/ ~volume.ok THEN none
                 ELSE [ok |-> TRUE,
                       book |-> TradeBook(fields[1], fields[2], price.val, volume.val)]

\* [ok |-> FALSE] stands for the ValueError of the unpacking, of float or of int
from_csv_line(line) ==
    LET fields == split_on(strip(line), ",")
        none   == [ok |-> FALSE, book |-> TradeBook(<<>>, <<>>, Dec(0, 0), 0)]
    IN  IF Len(fields) # 4 THEN none
        ELSE LET price  == float(fields[3])
                 volume == int(fields[4])
             IN  IF ~price.ok \/ ~volume.ok THEN none
                 ELSE [ok |-> TRUE,
                       book |-> TradeBook(fields[1], fields[2], price.val, volume.val)]

-----------------------------------------------------------------------------
(* Files: [exists |-> whether the path names a file, readable |-> whether the *)
(* process may open it for reading, lines |-> its lines]                      *)

NoFile == [exists |-> FALSE, readable |-> FALSE, lines |-> <<>>]

File(lines) == [exists |-> TRUE, readable |-> TRUE, lines |-> lines]

Unreadable(lines) == [exists |-> TRUE, readable |-> FALSE, lines |-> lines]

\* the exception open(path, "r") raises, "" when it opens the file
open_error(file) ==
    IF ~file.exists THEN "FileNotFoundError"
    ELSE IF ~file.readable THEN "PermissionError"
    ELSE ""

-----------------------------------------------------------------------------
(* class StockCodeService *)

\* the stripped non-empty lines; a file that is not found gives the empty set
load_stock_codes(file) ==
    IF ~file.exists THEN {}
    ELSE {strip(file.lines[i]) : i \in {j \in 1..Len(file.lines) : strip(file.lines[j]) # <<>>}}

MsgWarning == "Warning: Stock code file 'data/stockcode.csv' not found."

\* StockCodeService.__init__: the registry, the lines printed, and the exception
\* that leaves it ("" when none does): only FileNotFoundError is caught
StockCodeService(file) ==
    [stock_codes |-> IF open_error(file) = "" THEN load_stock_codes(file) ELSE {},
     printed |-> IF open_error(file) = "FileNotFoundError" THEN <<MsgWarning>> ELSE <<>>,
     raised |-> IF open_error(file) \in {"", "FileNotFoundError"} THEN ""
                ELSE open_error(file)]

is_valid_stock_code(codes, stock_code) == stock_code \in codes

-----------------------------------------------------------------------------
(* class TradeValidator *)

MinPrice == Dec(50, 2)

MaxVolume == 1000000

MsgInvalidAction == "Invalid action. Must be 'buy' or 'sell'."

MsgInvalidStockCode ==
    "Invalid stock code. Must be 4 uppercase letters and exist in stockcode.csv."

MsgInvalidPrice == "Invalid price. Must be a number with 2 decimal places and >= 0.50."

MsgInvalidVolume == "Invalid volume. Must be between 1 and 1,000,000."

validate_action(action) == action \in {<<"b", "u", "y">>, <<"s", "e", "l", "l">>}

validate_stock_code(codes, stock_code) ==
    IF stock_code = <<>> \/ Len(stock_code) # 4 THEN FALSE
    ELSE IF ~isupper(stock_code) \/ ~isalpha(stock_code) THEN FALSE
    ELSE is_valid_stock_code(codes, stock_code)

\* validate_price with the minimum itself refused
validate_price_ExclusiveMin(price) ==
    ~float_ge(MinPrice, price) /\ round2(price) = price

validate_price(price) == float_ge(price, MinPrice) /\ round2(price) = price

\* validate_volume with the maximum itself refused
validate_volume_ExclusiveMax(volume) == 1 <= volume /\ volume < MaxVolume

validate_volume(volume) == 1 <= volume /\ volume <= MaxVolume

\* validate_trade with the volume checked first
validate_trade_VolumeFirst(codes, action, stock_code, price, volume) ==
    IF ~validate_volume(volume)
    THEN [valid |-> FALSE, message |-> MsgInvalidVolume]
    ELSE IF ~validate_action(action)
    THEN [valid |-> FALSE, message |-> MsgInvalidAction]
    ELSE IF ~validate_stock_code(codes, stock_code)
    THEN [valid |-> FALSE, message |-> MsgInvalidStockCode]
    ELSE IF ~validate_price(price)
    THEN [valid |-> FALSE, message |-> MsgInvalidPrice]
    ELSE [valid |-> TRUE, message |-> ""]

validate_trade(codes, action, stock_code, price, volume) ==
    IF ~validate_action(action)
    THEN [valid |-> FALSE, message |-> MsgInvalidAction]
    ELSE IF ~validate_stock_code(codes, stock_code)
    THEN [valid |-> FALSE, message |-> MsgInvalidStockCode]
    ELSE IF ~validate_price(price)
    THEN [valid |-> FALSE, message |-> MsgInvalidPrice]
    ELSE IF ~validate_volume(volume)
    THEN [valid |-> FALSE, message |-> MsgInvalidVolume]
    ELSE [valid |-> TRUE, message |-> ""]

-----------------------------------------------------------------------------
(* class TradeBookService *)

MsgUpdated == "Trade book updated."

MsgAdded == "Trade book added."

RECURSIVE load_lines_SkipMalformed(_, _)
\* the loop of load_trade_books with a line that does not parse passed over
load_lines_SkipMalformed(lines, books) ==
    IF lines = <<>> THEN [ok |-> TRUE, trade_books |-> books]
    ELSE LET line == strip(Head(lines))
             r    == from_csv_line(line)
         IN  IF line = <<>> \/ ~r.ok THEN load_lines_SkipMalformed(Tail(lines), books)
             ELSE load_lines_SkipMalformed(Tail(lines), Append(books, r.book))

RECURSIVE load_lines(_, _)
\* the loop of load_trade_books over the lines left, books being the list so far
load_lines(lines, books) ==
    IF lines = <<>> THEN [ok |-> TRUE, trade_books |-> books]
    ELSE LET line == strip(Head(lines))
         IN  IF line = <<>> THEN load_lines(Tail(lines), books)
             ELSE LET r == from_csv_line(line)
                  IN  IF ~r.ok THEN [ok |-> FALSE, trade_books |-> books]
                      ELSE load_lines(Tail(lines), Append(books, r.book))

\* [ok |-> FALSE] stands for the ValueError that leaves __init__
load_trade_books(file) ==
    IF ~file.exists THEN [ok |-> TRUE, trade_books |-> <<>>]
    ELSE load_lines(file.lines, <<>>)

\* the file as save_trade_books writes it
save_trade_books(books) == File([i \in 1..Len(books) |-> to_csv_line(books[i])])

\* find_trade_book with the action not compared
find_trade_book_AnyAction(books, action, stock_code, price) ==
    LET found == {i \in 1..Len(books) :
                     /\ books[i].stock_code = stock_code
                     /\ books[i].price = price}
    IN  IF found = {} THEN 0 ELSE CHOOSE i \in found : \A j \in found : i <= j

\* find_trade_book with the volume compared as well
find_trade_book_WithVolume(books, action, stock_code, price) ==
    LET found == {i \in 1..Len(books) :
                     /\ TradeBook_eq(books[i], TradeBook(action, stock_code, price, 0))
                     /\ books[i].volume = 0}
    IN  IF found = {} THEN 0 ELSE CHOOSE i \in found : \A j \in found : i <= j

\* the index of the first trade book equal to the one searched, 0 for None
find_trade_book(books, action, stock_code, price) ==
    LET search_book == TradeBook(action, stock_code, price, 0)
        found == {i \in 1..Len(books) : TradeBook_eq(books[i], search_book)}
    IN  IF found = {} THEN 0 ELSE CHOOSE i \in found : \A j \in found : i <= j

\* process_trade with the volume of a matching trade book replaced, not increased
process_trade_Overwrite(books, action, stock_code, price, volume) ==
    LET existing_book == find_trade_book(books, action, stock_code, price)
    IN  IF existing_book # 0
        THEN LET updated == [books EXCEPT ![existing_book].volume = volume]
             IN  [trade_books |-> updated,
                  orders_file |-> save_trade_books(updated),
                  ret |-> MsgUpdated]
        ELSE LET added == Append(books, TradeBook(action, stock_code, price, volume))
             IN  [trade_books |-> added,
                  orders_file |-> save_trade_books(added),
                  ret |-> MsgAdded]

\* process_trade with the order for a stored trade book dropped
process_trade_FirstOnly(books, action, stock_code, price, volume) ==
    LET existing_book == find_trade_book(books, action, stock_code, price)
    IN  IF existing_book # 0
        THEN [trade_books |-> books,
              orders_file |-> save_trade_books(books),
              ret |-> MsgUpdated]
        ELSE LET added == Append(books, TradeBook(action, stock_code, price, volume))
             IN  [trade_books |-> added,
                  orders_file |-> save_trade_books(added),
                  ret |-> MsgAdded]

\* process_trade with the volume added to every trade book equal to the order
process_trade_UpdateAll(books, action, stock_code, price, volume) ==
    LET existing_book == find_trade_book(books, action, stock_code, price)
        search_book   == TradeBook(action, stock_code, price, 0)
    IN  IF existing_book # 0
        THEN LET updated == [i \in 1..Len(books) |->
                                IF TradeBook_eq(books[i], search_book)
                                THEN [books[i] EXCEPT !.volume = @ + volume]
                                ELSE books[i]]
             IN  [trade_books |-> updated,
                  orders_file |-> save_trade_books(updated),
                  ret |-> MsgUpdated]
        ELSE LET added == Append(books, TradeBook(action, stock_code, price, volume))
             IN  [trade_books |-> added,
                  orders_file |-> save_trade_books(added),
                  ret |-> MsgAdded]

\* process_trade with the volume of a trade book kept at 1,000,000 at most
process_trade_Capped(books, action, stock_code, price, volume) ==
    LET existing_book == find_trade_book(books, action, stock_code, price)
    IN  IF existing_book # 0
        THEN LET sum     == books[existing_book].volume + volume
                 updated == [books EXCEPT ![existing_book].volume =
                                IF sum > MaxVolume THEN MaxVolume ELSE sum]
             IN  [trade_books |-> updated,
                  orders_file |-> save_trade_books(updated),
                  ret |-> MsgUpdated]
        ELSE LET added == Append(books, TradeBook(action, stock_code, price, volume))
             IN  [trade_books |-> added,
                  orders_file |-> save_trade_books(added),
                  ret |-> MsgAdded]

\* process_trade with a new trade book put before the others
process_trade_Prepend(books, action, stock_code, price, volume) ==
    LET existing_book == find_trade_book(books, action, stock_code, price)
    IN  IF existing_book # 0
        THEN LET updated == [books EXCEPT ![existing_book].volume = @ + volume]
             IN  [trade_books |-> updated,
                  orders_file |-> save_trade_books(updated),
                  ret |-> MsgUpdated]
        ELSE LET added == <<TradeBook(action, stock_code, price, volume)>> \o books
             IN  [trade_books |-> added,
                  orders_file |-> save_trade_books(added),
                  ret |-> MsgAdded]

\* the list, the file and the message process_trade leaves
process_trade(books, action, stock_code, price, volume) ==
    LET existing_book == find_trade_book(books, action, stock_code, price)
    IN  IF existing_book # 0
        THEN LET updated == [books EXCEPT ![existing_book].volume = @ + volume]
             IN  [trade_books |-> updated,
                  orders_file |-> save_trade_books(updated),
                  ret |-> MsgUpdated]
        ELSE LET added == Append(books, TradeBook(action, stock_code, price, volume))
             IN  [trade_books |-> added,
                  orders_file |-> save_trade_books(added),
                  ret |-> MsgAdded]

-----------------------------------------------------------------------------
(* class CommandProcessor *)

MsgInvalidFormat == "Invalid command. Format: [buy|sell] [STOCKCODE] [PRICE] [VOLUME]"

MsgInvalidNumber ==
    "Invalid command. Price must be a decimal number and volume must be an integer."

\* process_command with the trade processed whatever the Trade Validator answers
process_command_NoValidation(codes, books, file, command) ==
    LET parts    == split(strip(command))
        rejected(message) ==
            [trade_books |-> books, orders_file |-> file, ret |-> message]
    IN  IF Len(parts) # 4 THEN rejected(MsgInvalidFormat)
        ELSE LET price  == float(parts[3])
                 volume == int(parts[4])
             IN  IF ~price.ok \/ ~volume.ok THEN rejected(MsgInvalidNumber)
                 ELSE process_trade(books, parts[1], parts[2], price.val, volume.val)

\* process_command with only too few tokens refused, the first four used otherwise
process_command_FirstFour(codes, books, file, command) ==
    LET parts    == split(strip(command))
        rejected(message) ==
            [trade_books |-> books, orders_file |-> file, ret |-> message]
    IN  IF Len(parts) < 4 THEN rejected(MsgInvalidFormat)
        ELSE LET price  == float(parts[3])
                 volume == int(parts[4])
             IN  IF ~price.ok \/ ~volume.ok THEN rejected(MsgInvalidNumber)
                 ELSE LET v == validate_trade(codes, parts[1], parts[2],
                                              price.val, volume.val)
                      IN  IF ~v.valid THEN rejected(v.message)
                          ELSE process_trade(books, parts[1], parts[2],
                                             price.val, volume.val)

\* process_command with the action validated before the numbers are parsed
process_command_ActionFirst(codes, books, file, command) ==
    LET parts    == split(strip(command))
        rejected(message) ==
            [trade_books |-> books, orders_file |-> file, ret |-> message]
    IN  IF Len(parts) # 4 THEN rejected(MsgInvalidFormat)
        ELSE IF ~validate_action(parts[1]) THEN rejected(MsgInvalidAction)
        ELSE LET price  == float(parts[3])
                 volume == int(parts[4])
             IN  IF ~price.ok \/ ~volume.ok THEN rejected(MsgInvalidNumber)
                 ELSE LET v == validate_trade(codes, parts[1], parts[2],
                                              price.val, volume.val)
                      IN  IF ~v.valid THEN rejected(v.message)
                          ELSE process_trade(books, parts[1], parts[2],
                                             price.val, volume.val)

\* the list, the file and the message process_command leaves
process_command(codes, books, file, command) ==
    LET parts    == split(strip(command))
        rejected(message) ==
            [trade_books |-> books, orders_file |-> file, ret |-> message]
    IN  IF Len(parts) # 4 THEN rejected(MsgInvalidFormat)
        ELSE LET price  == float(parts[3])
                 volume == int(parts[4])
             IN  IF ~price.ok \/ ~volume.ok THEN rejected(MsgInvalidNumber)
                 ELSE LET v == validate_trade(codes, parts[1], parts[2],
                                              price.val, volume.val)
                      IN  IF ~v.valid THEN rejected(v.message)
                          ELSE process_trade(books, parts[1], parts[2],
                                             price.val, volume.val)

-----------------------------------------------------------------------------
(* batch_mode and interactive_mode *)

MsgFileNotFound == "Error: File 'orders.txt' not found."

MsgPermissionDenied == "Error: [Errno 13] Permission denied: 'orders.txt'"

MsgEOF == "Error: EOF when reading a line"

\* print("\nExiting...") writes an empty line and this one
MsgExiting == "Exiting..."

\* the body of the loop of batch_mode with only the result printed
batch_line_ResultOnly(codes, books, file, text) ==
    LET line == strip(text)
        r    == process_command(codes, books, file, line)
    IN  IF line = <<>>
        THEN [trade_books |-> books, orders_file |-> file, ret |-> "", printed |-> <<>>]
        ELSE [trade_books |-> r.trade_books, orders_file |-> r.orders_file,
              ret |-> r.ret, printed |-> <<r.ret>>]

\* the body of the loop of batch_mode for one line of the file: ret is "" when the
\* line is skipped
batch_line(codes, books, file, text) ==
    LET line == strip(text)
        r    == process_command(codes, books, file, line)
    IN  IF line = <<>>
        THEN [trade_books |-> books, orders_file |-> file, ret |-> "", printed |-> <<>>]
        ELSE [trade_books |-> r.trade_books, orders_file |-> r.orders_file,
              ret |-> r.ret, printed |-> <<line, r.ret>>]

\* the body of the loop of interactive_mode with the loop left at a command that
\* is refused
interactive_line_StopOnRejection(codes, books, file, command) ==
    LET r == process_command(codes, books, file, command)
    IN  IF lower(command) = <<"e", "x", "i", "t">>
        THEN [trade_books |-> books, orders_file |-> file, ret |-> "", printed |-> <<>>,
              break |-> TRUE]
        ELSE IF strip(command) # <<>>
        THEN [trade_books |-> r.trade_books, orders_file |-> r.orders_file,
              ret |-> r.ret, printed |-> <<r.ret>>,
              break |-> r.ret \notin {MsgAdded, MsgUpdated}]
        ELSE [trade_books |-> books, orders_file |-> file, ret |-> "", printed |-> <<>>,
              break |-> FALSE]

\* the body of the loop of interactive_mode for one line input() returns: ret is ""
\* when no command is processed
interactive_line(codes, books, file, command) ==
    LET r == process_command(codes, books, file, command)
    IN  IF lower(command) = <<"e", "x", "i", "t">>
        THEN [trade_books |-> books, orders_file |-> file, ret |-> "", printed |-> <<>>,
              break |-> TRUE]
        ELSE IF strip(command) # <<>>
        THEN [trade_books |-> r.trade_books, orders_file |-> r.orders_file,
              ret |-> r.ret, printed |-> <<r.ret>>, break |-> FALSE]
        ELSE [trade_books |-> books, orders_file |-> file, ret |-> "", printed |-> <<>>,
              break |-> FALSE]

RECURSIVE batch_lines(_, _, _, _)
\* the loop of batch_mode over the lines given: the list it leaves
batch_lines(codes, books, file, lines) ==
    IF lines = <<>> THEN books
    ELSE LET r == batch_line(codes, books, file, Head(lines))
         IN  batch_lines(codes, r.trade_books, r.orders_file, Tail(lines))

-----------------------------------------------------------------------------
(* The texts the model draws *)

buy == <<"b", "u", "y">>

sell == <<"s", "e", "l", "l">>

hold == <<"h", "o", "l", "d">>

AAPL == <<"A", "A", "P", "L">>

MSFT == <<"M", "S", "F", "T">>

GOOG == <<"G", "O", "O", "G">>

aapl == <<"a", "a", "p", "l">>

AAPLX == <<"A", "A", "P", "L", "X">>

AAP1 == <<"A", "A", "P", "1">>

ABzC == <<"A", "B", "U+4E2D", "C">>

t_150_00 == <<"1", "5", "0", ".", "0", "0">>

t_150_0 == <<"1", "5", "0", ".", "0">>

t_0_50 == <<"0", ".", "5", "0">>

t_0_49 == <<"0", ".", "4", "9">>

t_1_001 == <<"1", ".", "0", "0", "1">>

t_1_009 == <<"1", ".", "0", "0", "9">>

t_0_125 == <<"0", ".", "1", "2", "5">>

t_neg_1_00 == <<"-", "1", ".", "0", "0">>

t_1_5 == <<"1", ".", "5">>

t_price == <<"p", "p", "p">>

t_volume == <<"d", "d", "d">>

t_100 == <<"1", "0", "0">>

t_50 == <<"5", "0">>

t_5 == <<"5">>

t_1 == <<"1">>

t_0 == <<"0">>

t_neg_1 == <<"-", "1">>

t_1000000 == <<"1", "0", "0", "0", "0", "0", "0">>

t_1000001 == <<"1", "0", "0", "0", "0", "0", "1">>

RECURSIVE Join(_, _)
\* the words with the separator between them
Join(words, sep) ==
    IF words = <<>> THEN <<>>
    ELSE IF Len(words) = 1 THEN words[1]
    ELSE words[1] \o sep \o Join(Tail(words), sep)

Words(words) == Join(words, <<" ">>)

Csv(fields) == Join(fields, <<",">>)

\* commands the Trade Validator accepts when AAPL and MSFT are registered
AcceptableCommands ==
    { Words(<<buy, AAPL, t_150_00, t_100>>),
      Words(<<buy, AAPL, t_150_00, t_50>>),
      <<" ">> \o Words(<<buy, <<>>, AAPL, t_150_0, t_100>>) \o <<" ">>,
      Words(<<sell, AAPL, t_150_00, t_100>>),
      Words(<<buy, MSFT, t_0_50, t_1>>),
      Words(<<buy, AAPL, t_150_00, t_1000000>>) }

\* commands with a token count other than 4
MisformedCommands ==
    { <<" ", " ">>,
      Words(<<buy, AAPL, t_150_00>>),
      Words(<<hold, t_price, t_volume>>),
      Words(<<buy, AAPL, t_150_00, t_100, t_100>>) }

\* commands of 4 tokens whose price or volume is no number
UnparsableCommands ==
    { Words(<<buy, AAPL, t_price, t_100>>),
      Words(<<buy, AAPL, t_150_00, t_volume>>),
      Words(<<buy, AAPL, t_150_00, t_1_5>>),
      Words(<<hold, AAPL, t_150_00, t_volume>>),
      Words(<<hold, GOOG, t_price, t_0>>) }

\* commands that parse and break a rule of the Trade Validator, or may
InvalidCommands ==
    { Words(<<hold, AAPL, t_150_00, t_100>>),
      Words(<<hold, AAPL, t_150_00, t_0>>),
      Words(<<buy, GOOG, t_150_00, t_100>>),
      Words(<<buy, GOOG, t_0_49, t_0>>),
      Words(<<buy, aapl, t_150_00, t_100>>),
      Words(<<buy, AAPLX, t_150_00, t_100>>),
      Words(<<buy, AAP1, t_150_00, t_100>>),
      Words(<<buy, ABzC, t_150_00, t_100>>),
      Words(<<buy, AAPL, t_0_49, t_100>>),
      Words(<<buy, AAPL, t_1_001, t_0>>),
      Words(<<buy, AAPL, t_neg_1_00, t_100>>),
      Words(<<buy, AAPL, t_150_00, t_0>>),
      Words(<<buy, AAPL, t_150_00, t_1000001>>),
      Words(<<buy, AAPL, t_150_00, t_neg_1>>) }

Commands ==
    AcceptableCommands \cup MisformedCommands \cup UnparsableCommands \cup InvalidCommands

\* the stock code files: none, one the process may not read, the usual one, and one
\* with entries of other shapes
StockCodeFiles ==
    { NoFile,
      Unreadable(<<AAPL, MSFT>>),
      File(<<AAPL, <<>>, MSFT \o <<" ">>>>),
      File(<<AAPL, MSFT, aapl, AAPLX, AAP1, ABzC>>) }

\* the orders files: none, an empty one, files as save_trade_books writes them, a
\* file with two lines of one identity, a file with a price of three decimals, and
\* files with a line of three fields, of five fields, and with a line whose price or
\* volume is not a number after a line that is well formed
OrdersFiles ==
    { NoFile,
      File(<<>>),
      File(<<Csv(<<buy, AAPL, t_150_00, t_100>>), <<>>>>),
      File(<<Csv(<<buy, AAPL, t_150_00, t_100>>), Csv(<<buy, AAPL, t_150_00, t_50>>)>>),
      File(<<Csv(<<sell, MSFT, t_1_001, t_5>>)>>),
      File(<<Csv(<<buy, AAPL, t_150_00>>)>>),
      File(<<Csv(<<buy, AAPL, t_150_00, t_100, t_5>>)>>),
      File(<<Csv(<<buy, AAPL, t_150_00, t_100>>), Csv(<<sell, MSFT, t_price, t_5>>)>>),
      File(<<Csv(<<buy, AAPL, t_150_00, t_100>>), Csv(<<sell, MSFT, t_1_5, t_volume>>)>>) }

-----------------------------------------------------------------------------
(* The program *)

NoCall == [op |-> "none", args |-> <<>>, ret |-> ""]

NoInput == [file |-> NoFile, pos |-> 0]

\* main, lines 585 to 589: the two services are constructed, the store only when
\* the registry was
Services ==
    \E codes \in StockCodeFiles, orders \in OrdersFiles :
        LET registry == StockCodeService(codes)
            store    == IF registry.raised = "" THEN load_trade_books(orders)
                        ELSE [ok |-> TRUE, trade_books |-> <<>>]
        IN  /\ stockcode_file = codes
            /\ stock_codes = registry.stock_codes
            /\ trade_books = store.trade_books
            /\ orders_file = orders
            /\ status = IF registry.raised # "" THEN registry.raised
                        ELSE IF ~store.ok THEN "ValueError"
                        ELSE "running"
            /\ output = registry.printed
            /\ call = NoCall
            /\ before = store.trade_books
            /\ loaded = store.trade_books
            /\ ntrades = 0

\* the Command Processor is handed commands one by one
Init == Services /\ input = NoInput

\* one command is handled: CommandProcessor.process_command, which prints nothing
ProcessCommand ==
    /\ status = "running"
    /\ ntrades < MaxTrades
    /\ \E command \in Commands :
        LET r == process_command(stock_codes, trade_books, orders_file, command)
        IN  /\ trade_books' = r.trade_books
            /\ orders_file' = r.orders_file
            /\ call' = [op |-> "process_command", args |-> <<command>>, ret |-> r.ret]
            /\ before' = trade_books
            /\ ntrades' = IF r.ret \in {MsgAdded, MsgUpdated} THEN ntrades + 1 ELSE ntrades
    /\ output' = <<>>
    /\ UNCHANGED <<stockcode_file, stock_codes, status, input, loaded>>

Next == ProcessCommand

Spec == Init /\ [][Next]_vars

-----------------------------------------------------------------------------
(* Batch mode: main with a command file named on the command line *)

t_exit == <<"e", "x", "i", "t">>

t_ExIT == <<"E", "x", "I", "T">>

\* the command files: none, one the process may not read, an empty one, and files
\* of accepted and refused commands with empty and blank lines among them
CommandFiles ==
    { NoFile,
      Unreadable(<<Words(<<buy, AAPL, t_150_00, t_100>>)>>),
      File(<<>>),
      File(<<Words(<<buy, AAPL, t_150_00, t_100>>),
             <<>>,
             Words(<<hold, AAPL, t_150_00, t_100>>),
             <<" ">> \o Words(<<buy, <<>>, AAPL, t_150_0, t_50>>) \o <<" ">>,
             <<" ", " ">>,
             Words(<<buy, AAPL, t_150_00>>),
             Words(<<sell, AAPL, t_150_00, t_100>>)>>),
      File(<<Words(<<buy, GOOG, t_150_00, t_100>>),
             Words(<<buy, AAPL, t_price, t_100>>),
             t_exit,
             Words(<<sell, MSFT, t_0_50, t_1>>)>>) }

InitBatch ==
    /\ Services
    /\ \E file \in CommandFiles : input = [file |-> file, pos |-> 0]

\* open(filename, "r") raises: the error is printed and batch_mode returns
BatchOpenError ==
    /\ status = "running"
    /\ open_error(input.file) # ""
    /\ output' = IF open_error(input.file) = "FileNotFoundError"
                 THEN <<MsgFileNotFound>>
                 ELSE <<MsgPermissionDenied>>
    /\ status' = "exited"
    /\ UNCHANGED <<stockcode_file, stock_codes, trade_books, orders_file, input, call,
                   before, loaded, ntrades>>

\* one turn of the loop over the lines of the file
BatchLine ==
    /\ status = "running"
    /\ open_error(input.file) = ""
    /\ input.pos < Len(input.file.lines)
    /\ LET text == input.file.lines[input.pos + 1]
           r    == batch_line(stock_codes, trade_books, orders_file, text)
       IN  /\ trade_books' = r.trade_books
           /\ orders_file' = r.orders_file
           /\ output' = r.printed
           /\ call' = IF r.ret = "" THEN call
                      ELSE [op |-> "process_command", args |-> <<strip(text)>>,
                            ret |-> r.ret]
           /\ before' = IF r.ret = "" THEN before ELSE trade_books
           /\ ntrades' = IF r.ret \in {MsgAdded, MsgUpdated} THEN ntrades + 1 ELSE ntrades
    /\ input' = [input EXCEPT !.pos = input.pos + 1]
    /\ UNCHANGED <<stockcode_file, stock_codes, status, loaded>>

\* the file is exhausted: batch_mode and main return
BatchEnd ==
    /\ status = "running"
    /\ open_error(input.file) = ""
    /\ input.pos = Len(input.file.lines)
    /\ output' = <<>>
    /\ status' = "exited"
    /\ UNCHANGED <<stockcode_file, stock_codes, trade_books, orders_file, input, call,
                   before, loaded, ntrades>>

NextBatch ==
    \/ BatchOpenError
    \/ BatchLine
    \/ BatchEnd

SpecBatch == InitBatch /\ [][NextBatch]_vars

-----------------------------------------------------------------------------
(* Batch mode on every sequence of a few orders, to compare the orders of   *)
(* processing                                                               *)

MaxOrders == 3

\* orders of one stock code and price: two to buy, one to sell
OrderCommands ==
    { Words(<<buy, AAPL, t_150_00, t_100>>),
      Words(<<buy, AAPL, t_150_00, t_50>>),
      Words(<<sell, AAPL, t_150_00, t_100>>) }

\* the command files of MaxOrders orders at most
OrderFiles == UNION {{File(lines) : lines \in [1..n -> OrderCommands]} : n \in 0..MaxOrders}

InitOrders ==
    /\ Services
    /\ status = "running"
    /\ \E file \in OrderFiles : input = [file |-> file, pos |-> 0]

NextOrders == BatchLine

SpecOrders == InitOrders /\ [][NextOrders]_vars

-----------------------------------------------------------------------------
(* Interactive mode: main without argument; the lines of input.file are the *)
(* lines typed, and after the last one the standard input is at its end     *)

StdinScripts ==
    { File(<<>>),
      File(<<Words(<<buy, AAPL, t_150_00, t_100>>),
             <<" ">>,
             Words(<<hold, AAPL, t_150_00, t_100>>),
             <<" ">> \o t_exit,
             Words(<<buy, AAPL, t_150_00>>),
             Words(<<sell, AAPL, t_150_00, t_100>>)>>),
      File(<<Words(<<buy, AAPL, t_price, t_100>>),
             t_ExIT,
             Words(<<sell, MSFT, t_0_50, t_1>>)>>),
      File(<<Words(<<buy, GOOG, t_150_00, t_100>>), <<>>, t_exit>>) }

InitInteractive ==
    /\ Services
    /\ \E file \in StdinScripts : input = [file |-> file, pos |-> 0]

\* input() returns a line
InteractiveLine ==
    /\ status = "running"
    /\ input.pos < Len(input.file.lines)
    /\ LET command == input.file.lines[input.pos + 1]
           r       == interactive_line(stock_codes, trade_books, orders_file, command)
       IN  /\ trade_books' = r.trade_books
           /\ orders_file' = r.orders_file
           /\ output' = r.printed
           /\ status' = IF r.break THEN "exited" ELSE "running"
           /\ call' = IF r.ret = "" THEN call
                      ELSE [op |-> "process_command", args |-> <<command>>, ret |-> r.ret]
           /\ before' = IF r.ret = "" THEN before ELSE trade_books
           /\ ntrades' = IF r.ret \in {MsgAdded, MsgUpdated} THEN ntrades + 1 ELSE ntrades
    /\ input' = [input EXCEPT !.pos = input.pos + 1]
    /\ UNCHANGED <<stockcode_file, stock_codes, loaded>>

\* input() raises EOFError: except Exception prints it and the loop goes on
InteractiveEOF ==
    /\ status = "running"
    /\ input.pos = Len(input.file.lines)
    /\ output' = <<MsgEOF>>
    /\ UNCHANGED <<stockcode_file, stock_codes, trade_books, orders_file, status, input,
                   call, before, loaded, ntrades>>

\* KeyboardInterrupt, at the prompt or while a command is handled
InteractiveInterrupt ==
    /\ status = "running"
    /\ output' = <<"", MsgExiting>>
    /\ status' = "exited"
    /\ UNCHANGED <<stockcode_file, stock_codes, trade_books, orders_file, input, call,
                   before, loaded, ntrades>>

NextInteractive ==
    \/ InteractiveLine
    \/ InteractiveEOF
    \/ InteractiveInterrupt

SpecInteractive == InitInteractive /\ [][NextInteractive]_vars

-----------------------------------------------------------------------------
(* The Trade Validator called on its own, as the tests call it: the arguments *)
(* are drawn at the start and each method is applied to them               *)

ActionArgs == {buy, sell, hold, <<"B", "U", "Y">>, <<>>}

StockCodeArgs == {AAPL, MSFT, GOOG, aapl, AAPLX, AAP1, ABzC, <<"A", "A", "P">>, <<>>}

PriceArgs ==
    { float(t).val : t \in {t_0_50, t_0_49, t_150_00, t_1_001, t_1_009, t_0_125,
                            t_neg_1_00, t_1_5, t_0, <<"0", ".", "5", "1">>,
                            <<"-", "0", ".", "0", "0", "1">>} }

VolumeArgs == {1, 100, 999999, 1000000, 1000001, 0, -1, -1000000}

InitValidator ==
    \E codes \in StockCodeFiles, action \in ActionArgs, stock_code \in StockCodeArgs,
       price \in PriceArgs, volume \in VolumeArgs :
        /\ open_error(codes) # "PermissionError"
        /\ stockcode_file = codes
        /\ stock_codes = StockCodeService(codes).stock_codes
        /\ trade_books = <<>>
        /\ orders_file = NoFile
        /\ status = "running"
        /\ input = NoInput
        /\ output = StockCodeService(codes).printed
        /\ loaded = <<>>
        /\ call = [op |-> "input", args |-> <<action, stock_code, price, volume>>, ret |-> ""]
        /\ before = <<>>
        /\ ntrades = 0

\* a method called on its own changes no other variable and prints nothing
ValidatorFrame ==
    /\ output' = <<>>
    /\ UNCHANGED <<stockcode_file, stock_codes, trade_books, orders_file, status, input,
                   before, loaded, ntrades>>

ValidateAction ==
    /\ call.op = "input"
    /\ call' = [op |-> "validate_action", args |-> <<call.args[1]>>,
                ret |-> validate_action(call.args[1])]
    /\ ValidatorFrame

ValidateStockCode ==
    /\ call.op = "input"
    /\ call' = [op |-> "validate_stock_code", args |-> <<call.args[2]>>,
                ret |-> validate_stock_code(stock_codes, call.args[2])]
    /\ ValidatorFrame

ValidatePrice ==
    /\ call.op = "input"
    /\ call' = [op |-> "validate_price", args |-> <<call.args[3]>>,
                ret |-> validate_price(call.args[3])]
    /\ ValidatorFrame

ValidateVolume ==
    /\ call.op = "input"
    /\ call' = [op |-> "validate_volume", args |-> <<call.args[4]>>,
                ret |-> validate_volume(call.args[4])]
    /\ ValidatorFrame

ValidateTrade ==
    /\ call.op = "input"
    /\ call' = [op |-> "validate_trade", args |-> call.args,
                ret |-> validate_trade(stock_codes, call.args[1], call.args[2],
                                       call.args[3], call.args[4])]
    /\ ValidatorFrame

NextValidator ==
    \/ ValidateAction
    \/ ValidateStockCode
    \/ ValidatePrice
    \/ ValidateVolume
    \/ ValidateTrade

SpecValidator == InitValidator /\ [][NextValidator]_vars

-----------------------------------------------------------------------------
(* The trade book on its own: two trade books are compared, one is searched *)
(* in a list, and one is written as a line and read back.                   *)

\* what a TradeBook may hold: the constructor checks nothing
TradeBookActions == {buy, sell, <<" ">> \o buy}

TradeBookStockCodes == {AAPL, MSFT, <<"A", ",", "B", "C">>}

TradeBookPrices == {float(t_150_00).val, float(t_0_50).val, float(t_1_001).val}

TradeBookVolumes == {int(t_100).val, int(t_5).val}

TradeBooks ==
    {TradeBook(action, stock_code, price, volume) :
        action \in TradeBookActions, stock_code \in TradeBookStockCodes,
        price \in TradeBookPrices, volume \in TradeBookVolumes}

\* the lists searched: none, one trade book, two of different identities, and two
\* of one identity
TradeBookLists ==
    { <<>>,
      <<TradeBook(buy, AAPL, float(t_150_00).val, 100)>>,
      <<TradeBook(buy, AAPL, float(t_150_00).val, 100),
        TradeBook(sell, MSFT, float(t_1_001).val, 5)>>,
      <<TradeBook(sell, AAPL, float(t_0_50).val, 5),
        TradeBook(sell, AAPL, float(t_0_50).val, 100)>> }

InitTradeBook ==
    \E self \in TradeBooks, other \in TradeBooks, books \in TradeBookLists :
        /\ stockcode_file = NoFile
        /\ stock_codes = {}
        /\ trade_books = books
        /\ orders_file = NoFile
        /\ status = "running"
        /\ input = NoInput
        /\ output = <<>>
        /\ loaded = books
        /\ call = [op |-> "input", args |-> <<self, other>>, ret |-> ""]
        /\ before = books
        /\ ntrades = 0

\* self == other
Equals ==
    /\ call.op = "input"
    /\ call' = [op |-> "__eq__", args |-> call.args,
                ret |-> TradeBook_eq(call.args[1], call.args[2])]
    /\ ValidatorFrame

\* the list is searched for the identity of other
FindTradeBook ==
    /\ call.op = "input"
    /\ LET other == call.args[2]
       IN  call' = [op |-> "find_trade_book",
                    args |-> <<other.action, other.stock_code, other.price>>,
                    ret |-> find_trade_book(trade_books, other.action,
                                            other.stock_code, other.price)]
    /\ ValidatorFrame

ToCsvLine ==
    /\ call.op = "input"
    /\ call' = [op |-> "to_csv_line", args |-> <<call.args[1]>>,
                ret |-> to_csv_line(call.args[1])]
    /\ ValidatorFrame

\* the line just written is read back
FromCsvLine ==
    /\ call.op = "to_csv_line"
    /\ call' = [op |-> "from_csv_line", args |-> <<call.ret>>,
                ret |-> from_csv_line(call.ret)]
    /\ ValidatorFrame

NextTradeBook ==
    \/ Equals
    \/ FindTradeBook
    \/ ToCsvLine
    \/ FromCsvLine

SpecTradeBook == InitTradeBook /\ [][NextTradeBook]_vars

-----------------------------------------------------------------------------
(* Properties of the Trade Validator, under SpecValidator *)

AllUppercase(s) == \A i \in 1..Len(s) : s[i] \in UpperChars

\* the messages of the four rules, in the order of the fields
RuleMessages == <<MsgInvalidAction, MsgInvalidStockCode, MsgInvalidPrice, MsgInvalidVolume>>

\* the rules (1: action, 2: stock code, 3: price, 4: volume) the arguments break
BrokenRules(codes, args) ==
    {r \in 1..4 :
        \/ r = 1 /\ ~validate_action(args[1])
        \/ r = 2 /\ ~validate_stock_code(codes, args[2])
        \/ r = 3 /\ ~validate_price(args[3])
        \/ r = 4 /\ ~validate_volume(args[4])}

\* C5: validate_trade returns (True, "") exactly when the arguments break no rule,
\* and otherwise (False, m) with m the message of the first broken rule in the
\* order action, stock code, price, volume.
C5_FirstFailingRule ==
    call.op = "validate_trade" =>
        LET broken == BrokenRules(stock_codes, call.args)
        IN  /\ call.ret.valid <=> broken = {}
            /\ call.ret.valid => call.ret.message = ""
            /\ ~call.ret.valid =>
                  \E r \in broken :
                      /\ \A q \in broken : r <= q
                      /\ call.ret.message = RuleMessages[r]

\* C5's case: the action and the volume are both invalid and the message is the
\* action's
C5_Witness ==
    /\ call.op = "validate_trade"
    /\ {1, 4} \subseteq BrokenRules(stock_codes, call.args)
    /\ call.ret = [valid |-> FALSE, message |-> MsgInvalidAction]

\* C6: validate_stock_code returns true exactly when the code has 4 characters,
\* every character is an uppercase letter, and the code is in the registry.
C6_StockCodeRule ==
    call.op = "validate_stock_code" =>
        LET code == call.args[1]
        IN  call.ret <=> (Len(code) = 4 /\ AllUppercase(code) /\ code \in stock_codes)

\* C7: validate_price returns true exactly when the price is at least 0.50 and has
\* at most 2 fractional decimal digits.
C7_PriceRule ==
    call.op = "validate_price" =>
        LET price == call.args[1]
        IN  call.ret <=> (2 * price.m >= Pow10(price.e) /\ price.e <= 2)

\* C7's case: the price 0.50 is accepted
C7_Witness ==
    /\ call.op = "validate_price"
    /\ call.args[1] = [m |-> 5, e |-> 1]
    /\ call.ret

\* C8: validate_volume returns true exactly when 1 <= volume <= 1,000,000.
C8_VolumeRule ==
    call.op = "validate_volume" =>
        LET volume == call.args[1]
        IN  call.ret <=> (volume \in 1..1000000)

\* C8's case: the volume 1,000,000 is accepted
C8_Witness ==
    /\ call.op = "validate_volume"
    /\ call.args[1] = 1000000
    /\ call.ret

-----------------------------------------------------------------------------
(* Properties of the Trade Book Store and the Command Processor, under Spec *)

\* the number of whitespace-separated tokens of a text: the places where one starts
TokenCount(text) ==
    Cardinality({i \in 1..Len(text) :
                    /\ text[i] \notin Whitespace
                    /\ i = 1 \/ text[i - 1] \in Whitespace})

\* the text is an integer literal: an optional sign, then digits only
IsIntegerText(t) ==
    LET body == IF t # <<>> /\ t[1] \in {"+", "-"} THEN Tail(t) ELSE t
    IN  body # <<>> /\ \A i \in 1..Len(body) : body[i] \in DigitChars

\* the text is a decimal literal: an optional sign, then digits with at most one
\* point among them
IsDecimalText(t) ==
    LET body == IF t # <<>> /\ t[1] \in {"+", "-"} THEN Tail(t) ELSE t
    IN  /\ \E i \in 1..Len(body) : body[i] \in DigitChars
        /\ \A i \in 1..Len(body) : body[i] \in DigitChars \cup {"."}
        /\ \A i, j \in 1..Len(body) : body[i] = "." /\ body[j] = "." => i = j

\* the order a command text of four tokens with numeric price and volume states
Order(command) ==
    LET parts == split(strip(command))
    IN  TradeBook(parts[1], parts[2], float(parts[3]).val, int(parts[4]).val)

\* the command passes the three steps before the Store: four tokens, a price and a
\* volume that parse, and the Trade Validator
Accepted(codes, command) ==
    /\ TokenCount(command) = 4
    /\ LET parts == split(strip(command))
       IN  /\ IsDecimalText(parts[3])
           /\ IsIntegerText(parts[4])
           /\ validate_trade(codes, parts[1], parts[2],
                             float(parts[3]).val, int(parts[4]).val).valid

\* the last operation was process_command, for a command that reached the Store
TradeProcessed(c) == c.op = "process_command" /\ Accepted(stock_codes, c.args[1])

SameIdentity(r, o) ==
    r.action = o.action /\ r.stock_code = o.stock_code /\ r.price = o.price

Matching(books, o) == {i \in 1..Len(books) : SameIdentity(books[i], o)}

\* C1: the collection holds at most one record for each (action, stockCode, price),
\* whatever well-formed orders file the Store was constructed from.
C1_OneRecordPerIdentity ==
    status = "running" =>
        \A i, j \in 1..Len(trade_books) :
            SameIdentity(trade_books[i], trade_books[j]) => i = j

\* C2: when the Store holds no record of an identity, a process call with volume v1
\* and then one with volume v2 for that identity return "Trade book added." and
\* "Trade book updated." and leave exactly one record of the identity, of volume
\* v1 + v2.
C2_AddThenUpdate ==
    [][ ( /\ TradeProcessed(call)
          /\ Matching(before, Order(call.args[1])) = {}
          /\ TradeProcessed(call')
          /\ SameIdentity(Order(call.args[1]), Order(call'.args[1])) )
        => ( /\ call.ret = MsgAdded
             /\ call'.ret = MsgUpdated
             /\ \E i \in 1..Len(trade_books') :
                   /\ Matching(trade_books', Order(call.args[1])) = {i}
                   /\ trade_books'[i].volume =
                        Order(call.args[1]).volume + Order(call'.args[1]).volume ) ]_vars

\* C2's case: from the empty Store, volumes 100 and 50 of one identity were
\* processed, the second as an update
C2_Witness ==
    /\ TradeProcessed(call)
    /\ call.ret = MsgUpdated
    /\ ntrades = 2
    /\ Len(trade_books) = 1
    /\ trade_books[1].volume = 150

\* C3: after a process call for an order the Trade Validator accepts, the file
\* holds one line per record in collection order, and a Store constructed from the
\* file has the same sequence of records as the collection.
C3_WriteThrough ==
    TradeProcessed(call) =>
        /\ orders_file.exists
        /\ Len(orders_file.lines) = Len(trade_books)
        /\ \A i \in 1..Len(trade_books) : orders_file.lines[i] = to_csv_line(trade_books[i])
        /\ load_trade_books(orders_file) = [ok |-> TRUE, trade_books |-> trade_books]

\* C4: a command rejected at any of the three steps leaves the collection and the
\* orders file as they were.
C4_RejectedChangesNothing ==
    [][ (call'.op = "process_command" /\ ~Accepted(stock_codes, call'.args[1]))
        => (trade_books' = trade_books /\ orders_file' = orders_file) ]_vars

\* C4's case: a command was rejected by the Trade Validator after a trade had been
\* stored
C4_Witness ==
    /\ call.op = "process_command"
    /\ call.ret = MsgInvalidVolume
    /\ ntrades > 0
    /\ trade_books = before

\* C9: process_command returns the invalid-command-format message for every text
\* whose token count is not 4, whatever the tokens are.
C9_TokenCount ==
    (call.op = "process_command" /\ TokenCount(call.args[1]) # 4)
        => call.ret = MsgInvalidFormat

\* C9's case: a text of three tokens, none of them valid, got the format message
C9_Witness ==
    /\ call.op = "process_command"
    /\ call.args[1] = Words(<<hold, t_price, t_volume>>)
    /\ call.ret = MsgInvalidFormat

\* C10: for a command of four tokens whose third token is no decimal number or
\* whose fourth is no integer, process_command returns the one parse message,
\* whatever the other tokens are.
C10_ParseBeforeValidation ==
    (call.op = "process_command" /\ TokenCount(call.args[1]) = 4) =>
        LET parts == split(strip(call.args[1]))
        IN  (~IsDecimalText(parts[3]) \/ ~IsIntegerText(parts[4]))
                => call.ret = MsgInvalidNumber

\* C10's case: an invalid action with a volume that is no number got the parse
\* message
C10_Witness ==
    /\ call.op = "process_command"
    /\ call.args[1] = Words(<<hold, AAPL, t_150_00, t_volume>>)
    /\ call.ret = MsgInvalidNumber

(***************************************************************************)
(* The return value of process_command                                     *)
(***************************************************************************)

Messages ==
    {MsgInvalidFormat, MsgInvalidNumber, MsgInvalidAction, MsgInvalidStockCode,
     MsgInvalidPrice, MsgInvalidVolume, MsgAdded, MsgUpdated}

\* C11: process_command returns one of the eight fixed messages for every command
\* text and every state of the Store and the registry; it returns added or updated
\* exactly when the command has 4 tokens, parses and passes validation, and added
\* exactly when no record with the order's identity existed beforehand.
C11_TotalAndClassified ==
    call.op = "process_command" =>
        LET command == call.args[1]
        IN  /\ call.ret \in Messages
            /\ call.ret \in {MsgAdded, MsgUpdated} <=> Accepted(stock_codes, command)
            /\ Accepted(stock_codes, command) =>
                    (call.ret = MsgAdded <=> Matching(before, Order(command)) = {})

\* C11's case: an order is added to a Store that holds a record of the other action
\* for the same stock code and price
C11_Witness ==
    /\ call.op = "process_command"
    /\ call.args[1] = Words(<<sell, AAPL, t_150_00, t_100>>)
    /\ call.ret = MsgAdded
    /\ \E i \in 1..Len(before) : before[i].stock_code = AAPL /\ before[i].volume # 100

(***************************************************************************)
(* The trade book: identity and the line format                            *)
(***************************************************************************)

\* C12: two trade records are the same record exactly when their action, stock
\* code and price are equal, whatever their volumes; find_trade_book returns a
\* stored record, one of the identity searched, exactly when some stored record
\* has that identity, and nothing otherwise.
C12_IdentityAndFind ==
    /\ call.op = "__eq__" =>
            (call.ret <=> SameIdentity(call.args[1], call.args[2]))
    /\ call.op = "find_trade_book" =>
            LET key == TradeBook(call.args[1], call.args[2], call.args[3], 0)
            IN  /\ call.ret # 0 <=> Matching(trade_books, key) # {}
                /\ call.ret # 0 => call.ret \in Matching(trade_books, key)

\* C12's case: two trade books of one identity and different volumes are equal
C12_Witness ==
    /\ call.op = "__eq__"
    /\ call.ret
    /\ call.args[1].volume # call.args[2].volume

\* the text f"{price:.2f}" keeps the price, and the fields come back as they were
\* written: no comma in the action or the stock code, and nothing for strip to
\* take off the front of the line
Serialisable(r) ==
    /\ r.price.e <= 2
    /\ \A i \in 1..Len(r.action) : r.action[i] # ","
    /\ \A i \in 1..Len(r.stock_code) : r.stock_code[i] # ","
    /\ r.action = <<>> \/ r.action[1] \notin Whitespace

\* from_csv_line returned the trade book r
ReadBack(c, r) == c.op = "from_csv_line" /\ c.ret.ok /\ c.ret.book = r

\* C13 as stated: parsing the text produced by serializing any trade record yields
\* a record with the same action, stock code, price and volume.
C13_RoundTrip ==
    [][(call.op = "to_csv_line" /\ call'.op = "from_csv_line")
            => ReadBack(call', call.args[1])]_vars

\* C13 amended: parsing the text produced by serializing a trade record yields the
\* same record exactly when the price has at most 2 fractional digits, neither the
\* action nor the stock code contains a comma, and the action does not begin with
\* whitespace.
C13_RoundTripOfSerialisable ==
    [][(call.op = "to_csv_line" /\ call'.op = "from_csv_line")
            => (ReadBack(call', call.args[1]) <=> Serialisable(call.args[1]))]_vars

\* C13's case: the trade book (sell, MSFT, 0.5, 5) is read back from its line
C13_Witness ==
    /\ ReadBack(call, TradeBook(sell, MSFT, float(t_0_50).val, 5))
    /\ call.args[1] = Csv(<<sell, MSFT, t_0_50, t_5>>)

(***************************************************************************)
(* Construction: the stock code file and the orders file                   *)
(***************************************************************************)

\* the command has four tokens, a price and a volume that parse, and a valid action
ReachesStockCodeRule(command) ==
    /\ TokenCount(command) = 4
    /\ LET parts == split(strip(command))
       IN  /\ IsDecimalText(parts[3])
           /\ IsIntegerText(parts[4])
           /\ validate_action(parts[1])

\* C14: when the stock code file is missing or is present but unreadable,
\* constructing the registry does not fail, the registry is the empty set, a warning
\* is printed, and every command with a valid action is rejected with the
\* invalid-stock-code message; when the orders file does not exist the Store
\* starts with an empty collection and no error.
C14_ResourceErrorsNonFatal ==
    /\ open_error(stockcode_file) # "" =>
            /\ status # "PermissionError"
            /\ stock_codes = {}
            /\ call = NoCall => output = <<MsgWarning>>
            /\ (call.op = "process_command" /\ ReachesStockCodeRule(call.args[1]))
                    => call.ret = MsgInvalidStockCode
    /\ (call = NoCall /\ ~orders_file.exists /\ status # "PermissionError") =>
            (trade_books = <<>> /\ status = "running")

\* the line is not empty and is no action,stock_code,price,volume: its field count
\* is not 4, or its price is no decimal number, or its volume is no integer
Malformed(line) ==
    LET text   == strip(line)
        fields == split_on(text, ",")
    IN  /\ text # <<>>
        /\ \/ Cardinality({i \in 1..Len(text) : text[i] = ","}) # 3
           \/ ~IsDecimalText(fields[3])
           \/ ~IsIntegerText(fields[4])

HasMalformedLine(file) ==
    file.exists /\ \E i \in 1..Len(file.lines) : Malformed(file.lines[i])

\* the state main leaves when TradeBookService() has been called: no command yet
StoreConstructed == call = NoCall /\ status # "PermissionError"

\* the command text has a format error: a token count other than 4, or a price or a
\* volume that is no number
FormatError(command) ==
    \/ TokenCount(command) # 4
    \/ LET parts == split(strip(command))
       IN  ~IsDecimalText(parts[3]) \/ ~IsIntegerText(parts[4])

\* C15 as stated: a malformed line in the persisted orders file never crashes the
\* process; the failure is recovered and the program goes on to accept commands.
C15_MalformedLineRecovered ==
    (StoreConstructed /\ HasMalformedLine(orders_file)) => status = "running"

\* C15 amended: a format error in a command is recovered locally and returned as a
\* message, the Store unchanged and the program still running; a malformed line in
\* the persisted orders file is not recovered: the ValueError ends the process
\* during construction, no message is printed and no command is ever accepted.
C15_OnlyCommandFormatErrorsRecovered ==
    /\ (call.op = "process_command" /\ FormatError(call.args[1])) =>
            /\ call.ret \in {MsgInvalidFormat, MsgInvalidNumber}
            /\ trade_books = before
            /\ status = "running"
    /\ (StoreConstructed /\ HasMalformedLine(orders_file)) =>
            /\ status = "ValueError"
            /\ \A i \in 1..Len(output) : output[i] = MsgWarning
    /\ status = "ValueError" => (call = NoCall /\ ntrades = 0)

\* C15's case: the orders file holds a line of three fields and the process has
\* ended with ValueError
C15_Witness ==
    /\ orders_file = File(<<Csv(<<buy, AAPL, t_150_00>>)>>)
    /\ status = "ValueError"
    /\ call = NoCall

\* C18: loading is strict: the load fails with ValueError exactly when some
\* non-empty line of the orders file has a field count other than 4 or a price or
\* volume that is not numeric, also when well-formed lines precede it; a Store is
\* in use only when every line was well formed, and then it holds one record for
\* each non-empty line.
C18_StrictLoad ==
    StoreConstructed =>
        /\ status = "ValueError" <=> HasMalformedLine(orders_file)
        /\ status = "running" =>
                Len(trade_books) =
                    Cardinality({i \in 1..Len(orders_file.lines) :
                                    strip(orders_file.lines[i]) # <<>>})

\* C18's case: the load fails on a second line whose price is not numeric, the
\* first line being well formed
C18_Witness ==
    /\ call = NoCall
    /\ status = "ValueError"
    /\ Len(orders_file.lines) = 2
    /\ ~Malformed(orders_file.lines[1])
    /\ split_on(orders_file.lines[2], ",")[3] = t_price

(***************************************************************************)
(* The records of the Store                                                *)
(***************************************************************************)

\* the record satisfies the rules of the Trade Validator as the claims state them
ValidRecord(r) ==
    /\ r.action \in {buy, sell}
    /\ Len(r.stock_code) = 4
    /\ AllUppercase(r.stock_code)
    /\ r.stock_code \in stock_codes
    /\ 2 * r.price.m >= Pow10(r.price.e)
    /\ r.price.e <= 2
    /\ r.volume >= 1

\* C19: in every state reached from an empty Store through process_command calls
\* only, every stored record has action buy or sell, a stock code of 4 uppercase
\* letters that is in the registry, a price of at least 0.50 with at most 2 decimal
\* digits, and a volume of at least 1 that is the sum of the volumes, each in
\* 1..1,000,000, of the orders accepted so far.
C19_StoredRecordsValid ==
    loaded = <<>> =>
        \A i \in 1..Len(trade_books) :
            /\ ValidRecord(trade_books[i])
            /\ trade_books[i].volume <= ntrades * MaxVolume

\* C20: records are never deleted or split: a step never decreases the number of
\* stored records, never changes the action, stock code or price of a record, and
\* never decreases a volume; an accepted sell order leaves every buy record as it
\* was and afterwards a sell record of the order's stock code and price exists.
C20_NeverDeletedOrSplit ==
    [][/\ Len(trade_books') >= Len(trade_books)
       /\ \A i \in 1..Len(trade_books) :
              /\ SameIdentity(trade_books'[i], trade_books[i])
              /\ trade_books'[i].volume >= trade_books[i].volume
       /\ (TradeProcessed(call') /\ Order(call'.args[1]).action = sell) =>
              /\ \A i \in 1..Len(trade_books) :
                     trade_books[i].action = buy => trade_books'[i] = trade_books[i]
              /\ Matching(trade_books', Order(call'.args[1])) # {}]_vars

\* C20's case: a sell order for the stock code and price of a stored buy record has
\* been accepted, and both records are stored
C20_Witness ==
    /\ TradeProcessed(call)
    /\ Order(call.args[1]).action = sell
    /\ \E i, j \in 1..Len(trade_books) :
          /\ i < j
          /\ trade_books[i].action = buy
          /\ trade_books[j].action = sell
          /\ trade_books[i].stock_code = trade_books[j].stock_code
          /\ trade_books[i].price = trade_books[j].price
          /\ j > Len(before)

(***************************************************************************)
(* The two modes                                                           *)
(***************************************************************************)

\* the line the step from the current state reads
NextLine == input.file.lines[input.pos + 1]

\* C16: batch mode handles the lines of the command file one by one in file order;
\* for every non-empty line it calls process_command once on the stripped line and
\* prints the line and then the result; it stops only when every line has been
\* read; when the command file is missing, one error is printed and the Store is
\* not changed.
C16_BatchInOrder ==
    /\ [](open_error(input.file) = "" /\ status = "exited"
            => input.pos = Len(input.file.lines))
    /\ [](~input.file.exists /\ status = "exited"
            => /\ Len(output) = 1
               /\ output[1] = MsgFileNotFound
               /\ trade_books = loaded
               /\ call = NoCall)
    /\ [][/\ input'.pos \in {input.pos, input.pos + 1}
          /\ input'.pos = input.pos => (trade_books' = trade_books /\ call' = call)
          /\ input'.pos = input.pos + 1 =>
                 LET line == strip(NextLine)
                     r    == process_command(stock_codes, trade_books, orders_file, line)
                 IN  IF line = <<>>
                     THEN Len(output') = 0 /\ trade_books' = trade_books /\ call' = call
                     ELSE /\ call'.op = "process_command"
                          /\ call'.args = <<line>>
                          /\ call'.ret = r.ret
                          /\ trade_books' = r.trade_books
                          /\ Len(output') = 2
                          /\ output'[1] = line
                          /\ output'[2] = r.ret]_vars

\* C16's case: a file of seven lines, two of them blank, has been read to its end
\* from an empty Store: three commands were accepted and two refused
C16_Witness ==
    /\ status = "exited"
    /\ input.pos = 7
    /\ loaded = <<>>
    /\ ntrades = 3
    /\ Len(trade_books) = 2
    /\ trade_books[1].volume = 150

\* C17: interactive mode ends only when a line equal to "exit" in any letter case
\* is entered or an interrupt arrives; after any other line, a refused command
\* among them, the result is printed and the loop goes on, and after the exception
\* input() raises at the end of the input the error is printed and the loop goes on.
C17_OnlyExitOrInterrupt ==
    [][/\ (status = "running" /\ status' = "exited") =>
              \/ input' = input /\ output' = <<"", MsgExiting>>
              \/ input'.pos = input.pos + 1 /\ lower(NextLine) = t_exit
       /\ (input'.pos = input.pos + 1 /\ lower(NextLine) # t_exit) =>
              /\ status' = "running"
              /\ (strip(NextLine) # <<>> =>
                     /\ call' = [op |-> "process_command", args |-> <<NextLine>>,
                                 ret |-> process_command(stock_codes, trade_books,
                                                         orders_file, NextLine).ret]
                     /\ output' = <<call'.ret>>)
       /\ (input' = input /\ status' = "running") =>
              (input.pos = Len(input.file.lines) /\ output' = <<MsgEOF>>)]_vars

\* C17's case: three refused commands, " exit" among them, have been entered and
\* the loop has gone on to accept the command after them
C17_Witness ==
    /\ status = "running"
    /\ input.pos = 6
    /\ call.ret = MsgAdded
    /\ ntrades = 2
    /\ Len(trade_books) = 2

(***************************************************************************)
(* Order and aggregation in the Store                                      *)
(***************************************************************************)

\* C21: an added outcome puts the new record after all existing records, which stay
\* as they were; an updated outcome leaves the number of records and the identity at
\* every position unchanged; after either, the file holds exactly one line for each
\* record, in collection order, whatever it held before.
C21_InsertionOrder ==
    [][/\ (call'.op = "process_command" /\ call'.ret = MsgAdded) =>
              trade_books' = Append(trade_books, Order(call'.args[1]))
       /\ (call'.op = "process_command" /\ call'.ret = MsgUpdated) =>
              /\ Len(trade_books') = Len(trade_books)
              /\ \A i \in 1..Len(trade_books) :
                     SameIdentity(trade_books'[i], trade_books[i])
       /\ (call'.op = "process_command" /\ call'.ret \in {MsgAdded, MsgUpdated}) =>
              orders_file' = File([i \in 1..Len(trade_books') |->
                                      to_csv_line(trade_books'[i])])]_vars

\* C21's case: a record has been added after a loaded one, and the file, which held
\* an empty line after its one record, now holds the two records and nothing else
C21_Witness ==
    /\ call.op = "process_command"
    /\ call.ret = MsgAdded
    /\ loaded = <<TradeBook(buy, AAPL, float(t_150_00).val, 100)>>
    /\ Len(trade_books) = 2
    /\ trade_books[1] = loaded[1]
    /\ trade_books[2].action = sell
    /\ ntrades = 1
    /\ Len(orders_file.lines) = 2

\* the first record of the order's identity, 0 when there is none
FirstMatching(books, o) ==
    IF Matching(books, o) = {} THEN 0
    ELSE CHOOSE i \in Matching(books, o) : \A j \in Matching(books, o) : i <= j

\* C22: the bound 1..1,000,000 is on each order, not on the aggregate: a command is
\* accepted exactly when it would be accepted by an empty Store with the same
\* registry, and an accepted order whose identity is stored adds its volume to that
\* record whatever the sum is.
C22_BoundPerOrder ==
    /\ [](call.op = "process_command" =>
            (call.ret \in {MsgAdded, MsgUpdated}
                <=> process_command(stock_codes, <<>>, NoFile, call.args[1]).ret = MsgAdded))
    /\ [][(TradeProcessed(call') /\ Matching(trade_books, Order(call'.args[1])) # {}) =>
              LET o == Order(call'.args[1])
                  i == FirstMatching(trade_books, o)
              IN  /\ call'.ret = MsgUpdated
                  /\ trade_books'[i].volume = trade_books[i].volume + o.volume]_vars

\* C22's case: an order has been merged into a record whose volume is now above
\* 1,000,000
C22_Witness ==
    /\ TradeProcessed(call)
    /\ call.ret = MsgUpdated
    /\ \E i \in 1..Len(trade_books) :
          /\ SameIdentity(trade_books[i], Order(call.args[1]))
          /\ trade_books[i].volume > MaxVolume
          /\ before[i].volume <= MaxVolume

RECURSIVE SumVolumes(_)
\* the sum of the volumes of the records of a list
SumVolumes(books) ==
    IF books = <<>> THEN 0 ELSE Head(books).volume + SumVolumes(Tail(books))

\* the volume the call contributes: that of its order when accepted, else nothing
AcceptedVolume(c) == IF TradeProcessed(c) THEN Order(c.args[1]).volume ELSE 0

\* C23: the sum of the volumes of the stored records is that of the records loaded
\* as long as no order has been accepted, and every call adds to it the volume of
\* its order when the order is accepted and nothing when it is rejected, also when
\* the loaded file held several lines of one identity.
C23_VolumeConservation ==
    /\ [](ntrades = 0 => SumVolumes(trade_books) = SumVolumes(loaded))
    /\ [](ntrades = 1 /\ TradeProcessed(call) =>
            SumVolumes(trade_books) = SumVolumes(loaded) + AcceptedVolume(call))
    /\ [][SumVolumes(trade_books') = SumVolumes(trade_books) + AcceptedVolume(call')]_vars

\* C23's case: the file held two lines of one identity and an order of that
\* identity has been accepted
C23_Witness ==
    /\ Len(loaded) = 2
    /\ SameIdentity(loaded[1], loaded[2])
    /\ TradeProcessed(call)
    /\ SameIdentity(loaded[1], Order(call.args[1]))
    /\ ntrades = 1
    /\ SumVolumes(trade_books) = SumVolumes(loaded) + Order(call.args[1]).volume

\* the records of a list, without their positions
RecordSet(books) == {books[i] : i \in 1..Len(books)}

\* the lines of the command file in the order p
Permuted(p) == [i \in 1..Len(input.file.lines) |-> input.file.lines[p[i]]]

\* C24: when the orders of a command file have all been processed, the set of
\* (action, stock code, price, volume) records is the one every other order of
\* processing the same orders gives from the same initial Store.
C24_OrderIndependent ==
    input.pos = Len(input.file.lines) =>
        \A p \in Permutations(1..Len(input.file.lines)) :
            RecordSet(batch_lines(stock_codes, loaded, NoFile, Permuted(p)))
                = RecordSet(trade_books)

\* C24's case: three accepted orders have been processed, and another order of
\* processing gives the same records at other positions
C24_Witness ==
    /\ input.pos = 3
    /\ Len(input.file.lines) = 3
    /\ ntrades = 3
    /\ \E p \in Permutations(1..3) :
          LET other == batch_lines(stock_codes, loaded, NoFile, Permuted(p))
          IN  other # trade_books /\ RecordSet(other) = RecordSet(trade_books)

(***************************************************************************)
(* The end of the input in interactive mode                                *)
(***************************************************************************)

\* what a turn of the loop of interactive_mode can change, the lines printed apart
program == <<stockcode_file, stock_codes, trade_books, orders_file, status, input, call,
             before, loaded, ntrades>>

\* C25: interactive mode terminates when the input ends without "exit" and without
\* an interrupt: a turn of the loop at the end of the input never leaves the program
\* as it was, still running at the end of the input, since the turns after it would
\* then do the same without end.
C25_ExitsAtEndOfInput ==
    [][(status = "running" /\ input.pos = Len(input.file.lines))
            => ~(UNCHANGED program)]_vars

====
